---- MODULE Spec2Model ----
(***************************************************************************)
(* The result-streaming engine of lgrep (src/execute.go, the revision of   *)
(* lines 171-470): execute() chooses the single-page executor or the       *)
(* cursor (scroll) driver, which run as goroutines and publish on the      *)
(* Results and Errors channels of a SearchStream; a helper goroutine       *)
(* clears the scroll ids; the caller consumes with Each() and controls the *)
(* stream with Wait() and Quit().                                          *)
(*                                                                         *)
(* Every goroutine is a program counter; every channel operation, lock     *)
(* operation, wait-group operation and server round trip is one step.      *)
(* The server (gopkg.in/olivere/elastic.v3) is the environment: it holds   *)
(* ndocs matching documents, numbered 1..ndocs in the order it returns     *)
(* them, and may fail any request.                                         *)
(***************************************************************************)
EXTENDS Integers, Sequences, FiniteSets, TLC

\* Sizes are scaled down so that every path is explored exhaustively:
\* MaxSearchSize is 10000, scrollChunk 100 and the Results buffer 93 in the
\* source.
MaxSearchSize == 2
scrollChunk == 2
ResultsCap == 1
\* make(chan error, 1), make(chan struct{}, 1) and make(chan string, 5)
ErrorsCap == 1
QuitCap == 1
DiscardCap == 5
\* Number of calls (Each, Wait, Quit) the caller makes on a stream.
MaxCalls == 2
\* Bits of the significand of a float64 (53 in the Go runtime), scaled down
\* so that integers that are not exactly representable stay small.
MantissaBits == 3

\* The server never holds more than MaxDocs matching documents.
MaxDocs == MaxSearchSize + 3
\* Requested sizes: both sides of the single-request limit.
Sizes == {MaxSearchSize, MaxSearchSize + 1, MaxSearchSize + 2}
\* Numbers of matching documents: fewer and more than any requested size.
NDocs == {0, 1, MaxDocs}
\* The hit without a source, 0 for none.
BadHits == {0, 1, 2}
\* spec.Index and len(spec.Indices)
IndexNames == {"", "journald-*"}
IndicesLens == {0, 1}
\* The specifications execute is called with.  The index plays no part on
\* the single-page path, and Indices plays none once Index is set.
Specs ==
    {s \in [Size : Sizes, Index : IndexNames, Indices : IndicesLens,
             QuerySkipValidate : {FALSE}] :
        /\ s.Size <= MaxSearchSize => s.Indices = 0 /\ s.Index # ""
        /\ s.Index # "" => s.Indices = 0}

\* DefaultSpec (lgrep.go:27): Size 100, which is below MaxSearchSize.
DefaultSize == MaxSearchSize - 1
DefaultSpec ==
    [Size |-> DefaultSize, Index |-> "", Indices |-> 0, QuerySkipValidate |-> FALSE]

\* The zero SearchOptions.
ZeroSpec == [Size |-> 0, Index |-> "", Indices |-> 0, QuerySkipValidate |-> FALSE]

\* Specifications given to SimpleSearch and SearchWithSource.
SearchSizes == {0, 1, DefaultSize, MaxSearchSize + 1}
SearchSpecs ==
    [Size : SearchSizes, Index : IndexNames, Indices : {0}, QuerySkipValidate : BOOLEAN]

Queries == {"", "message:error"}

\* Scroll ids the server may return ("" is "no scroll id in the response").
Tokens == {"", "sid1", "sid2"}

\* The nil Result (also the EOS sentinel, execute.go:192).
Nil == 0

Threads == {"consumer"}
\* The threads of a program that shares the stream between two of them.
TwoThreads == {"consumer", "other"}

VARIABLES
    args,          \* the receiver a pure function is applied to
    result,        \* what the pure function returned
    fn,            \* the function called: "execute", "SimpleSearch",
                   \* "SearchWithSource", "buildURL"
    q,             \* SimpleSearch's query string
    opts,          \* the *SearchOptions argument: <<>> for nil, <<s>> for &s
    fpc,           \* position inside SimpleSearch / SearchWithSource
    fret,          \* what SimpleSearch / SearchWithSource returned
    spec,          \* SearchOptions passed to execute: Size, Index, Indices
    ndocs,         \* server: number of matching documents
    badHit,        \* server: the hit that has no _source (0: none)
    ret,           \* what execute returned: "none", "stream", "error"
    Results,       \* stream.Results buffer
    Errors,        \* stream.Errors buffer
    closes,        \* close() calls per channel
    quit,          \* stream.control.quit buffer (number of signals)
    wg,            \* stream.control.WaitGroup counter
    mutex,         \* stream.control.Mutex holder, "free" when unlocked
    stopped,       \* stream.control.stopped
    ppc,           \* producer goroutine position
    page,          \* producer: result.Hits.Hits of the current page
    pageTok,       \* producer: results.ScrollId of the current page
    hitIdx,        \* producer: index of the hit being processed
    cur,           \* producer: the Result extractResult returned
    nextScrollID,  \* executeScroll local
    resultCount,   \* executeScroll local
    err,           \* producer: what the last Do() returned as its error
    discardID,     \* executeScroll's discardID channel buffer
    hpc,           \* scroll cleaner goroutine position
    scrolls,       \* scroll cleaner's slice
    spos,          \* server: documents already returned by the scroll
    issued,        \* server: scroll ids it returned
    submitted,     \* server: scroll ids received in a ClearScroll request
    requests,      \* server: requests received, per kind
    pc,            \* caller threads' positions
    calls,         \* calls made on the stream so far
    inEach,        \* Each has been called and has not returned
    received,      \* consumer: values Each passed to resultFn from Results
    errsReceived,  \* consumer: values Each passed to errFn
    eosCalls,      \* consumer: resultFn(EOS) calls of Each
    eachRet,       \* consumer: how Each left its loop
    spins,         \* consumer: parity of the iterations of Each's loop that
                   \* have just taken the case of the closed Errors channel
    published,     \* history: values sent on Results
    errsPublished, \* history: values sent on Errors
    quitSent,      \* history: Quit() has sent the cancellation signal
    afterQuit,     \* history: results sent on Results since the signal
    quitsReturned  \* history: Quit() calls that have returned

pure == <<args, result>>
front == <<pure, fn, q, opts, fpc, fret>>
inputs == <<spec, ndocs, badHit>>
chans == <<Results, Errors, closes, quit>>
ctl == <<wg, mutex, stopped>>
prod == <<ppc, page, pageTok, hitIdx, cur, nextScrollID, resultCount, err>>
helper == <<discardID, hpc, scrolls>>
server == <<spos, issued, submitted, requests>>
client == <<pc, calls, inEach, received, errsReceived, eosCalls, eachRet, spins>>
hist == <<published, errsPublished, quitSent, afterQuit, quitsReturned>>
vars == <<front, inputs, ret, chans, ctl, prod, helper, server, client, hist>>

----------------------------------------------------------------------------
\* Pure helpers

Min(a, b) == IF a < b THEN a ELSE b

Range(s) == {s[i] : i \in DOMAIN s}

\* Hits lo..hi in server order.
RECURSIVE HitsFrom(_, _)
HitsFrom(lo, hi) == IF lo > hi THEN <<>> ELSE <<lo>> \o HitsFrom(lo + 1, hi)

TransportError == [kind |-> "transport", hit |-> 0]
ConvertError(h) == [kind |-> "convert", hit |-> h]

\* extractResult: a hit without a source gives (nil, "nil document returned").
extractResult(h) ==
    IF h = badHit THEN [result |-> Nil, err |-> TRUE]
                  ELSE [result |-> h, err |-> FALSE]

\* The rejection test with its condition inverted.
IndexMissingInverted(s) == s.Index # ""

\* execute.go:311, the test that rejects a large request.
IndexMissing(s) == s.Index = "" \/ (s.Index = "" /\ s.Indices = 0)

\* The size test with the limit on the cursor side.
UseScrollFromLimit(s) == s.Size >= MaxSearchSize

\* execute.go:310
UseScroll(s) == s.Size > MaxSearchSize

\* The count test one result late.
CountReachedLate(count, size) == count > size

\* execute.go:431
CountReached(count, size) == count = size

\* execute.go:395
CountExceeded(count, size) == count >= size

\* A loop that steps over every other hit.
NextHitSkip(i) == i + 2

\* for ... range result.Hits.Hits: the next index
NextHit(i) == i + 1

ChanClosed(c) == closes[c] > 0

\* An end-of-stream test that never recognises elastic.EOS.
IsEOSNever(e) == FALSE

\* execute.go:404, err != elastic.EOS negated
IsEOS(e) == e = "EOS"

----------------------------------------------------------------------------
\* The state every run starts from once the arguments are chosen: nothing
\* has been created, sent or returned.
FreshFor(T) ==
    /\ ret = "none"
    /\ Results = <<>>
    /\ Errors = <<>>
    /\ closes = [c \in {"Results", "Errors", "discardID"} |-> 0]
    /\ quit = 0
    /\ wg = 0
    /\ mutex = "free"
    /\ stopped = FALSE
    /\ ppc = "none"
    /\ page = <<>>
    /\ pageTok = ""
    /\ hitIdx = 0
    /\ cur = Nil
    /\ nextScrollID = ""
    /\ resultCount = 0
    /\ err = "none"
    /\ discardID = <<>>
    /\ hpc = "none"
    /\ scrolls = <<>>
    /\ spos = 0
    /\ issued = {}
    /\ submitted = {}
    /\ requests = [k \in {"search", "scroll", "clear", "validate"} |-> 0]
    /\ pc = [t \in T |-> "start"]
    /\ calls = 0
    /\ inEach = FALSE
    /\ received = <<>>
    /\ errsReceived = <<>>
    /\ eosCalls = 0
    /\ eachRet = "none"
    /\ spins = 0
    /\ published = <<>>
    /\ errsPublished = <<>>
    /\ quitSent = FALSE
    /\ afterQuit = 0
    /\ quitsReturned = 0
    /\ fret = [results |-> <<>>, err |-> "none"]
    /\ result = <<>>

\* The same with the one thread of Threads.
Fresh == FreshFor(Threads)

\* execute called on its own with a specification of Specs.
Init ==
    /\ args = <<>>
    /\ fn = "execute"
    /\ q = "message:error"
    /\ opts = <<>>
    /\ fpc = "none"
    /\ spec \in Specs
    /\ ndocs \in NDocs
    /\ badHit \in {h \in BadHits : h <= ndocs}
    /\ Fresh

\* SimpleSearch or SearchWithSource called with a query and a specification
\* pointer (nil included); spec is the zero value until the pointer is read.
InitSearch ==
    /\ args = <<>>
    /\ fn \in {"SimpleSearch", "SearchWithSource"}
    /\ q \in Queries
    /\ opts \in {<<>>} \cup {<<s>> : s \in SearchSpecs}
    /\ fpc = "entry"
    /\ spec = ZeroSpec
    /\ ndocs = MaxDocs
    /\ badHit \in {0, 1}
    /\ Fresh

----------------------------------------------------------------------------
\* SearchOptions.buildURL (src/unnamed/part_017:98-131).  A string is the
\* sequence of its characters; a path is a sequence of pieces, each a
\* character of an expanded value or a literal piece of the template or of
\* the endpoint.

\* Index and type names given to buildURL ("" is <<>>).
Wildcard == <<"j", "-", "*">>
Dated == <<"j", "-", "2", "0", "1", "6", ".", "0", "5">>
Plain == <<"j", "d">>
Other == <<"s", "y", "s">>
NameLists == {<<>>, <<Plain>>, <<Plain, Other>>}
URLSpecs ==
    [Index : {<<>>, Dated, Wildcard}, Indices : NameLists,
     Type : {<<>>, Plain, Wildcard}, Types : NameLists]

\* strings.Join(names, ",")
RECURSIVE Join(_)
Join(names) ==
    IF names = <<>> THEN <<>>
    ELSE IF Len(names) = 1 THEN names[1]
    ELSE names[1] \o <<",">> \o Join(Tail(names))

\* The characters uritemplates leaves as they are: A-Z a-z 0-9 - . _ ~
Unreserved ==
    {"j", "d", "s", "y", "0", "1", "2", "5", "6", "-", ".", "_", "~"}

\* uritemplates' pctEncode: % and the two hexadecimal digits of the byte
pctEncode(c) ==
    CASE c = "," -> <<"%", "2", "C">>
      [] c = "*" -> <<"%", "2", "A">>
      [] c = "/" -> <<"%", "2", "F">>

\* uritemplates' escape of a value substituted for {var}
RECURSIVE escape(_)
escape(str) ==
    IF str = <<>> THEN <<>>
    ELSE (IF Head(str) \in Unreserved THEN <<Head(str)>> ELSE pctEncode(Head(str)))
         \o escape(Tail(str))

\* uritemplates.Expand(template, values): every {var} piece of the template
\* is replaced by the escaped value, every other piece is kept.
RECURSIVE Expand(_, _)
Expand(template, values) ==
    IF template = <<>> THEN <<>>
    ELSE (IF Head(template) \in DOMAIN values
            THEN escape(values[Head(template)])
            ELSE <<Head(template)>>)
         \o Expand(Tail(template), values)

\* indices = append(indices, s.Index) placed after s.Indices, without the
\* test for the empty name.
indicesOfAppended(s) == s.Indices \o <<s.Index>>

\* if s.Index != "" { indices = append(indices, s.Index) }
\* indices = append(indices, s.Indices...)
indicesOf(s) == (IF s.Index # <<>> THEN <<s.Index>> ELSE <<>>) \o s.Indices

\* if s.Type != "" { types = append(types, s.Type) }
\* types = append(types, s.Types...)
typesOf(s) == (IF s.Type # <<>> THEN <<s.Type>> ELSE <<>>) \o s.Types

buildURL(s, endpoint) ==
    LET indices == indicesOf(s)
        types == typesOf(s)
        values == [v \in {"{index}", "{type}"} |->
                     IF v = "{index}" THEN Join(indices) ELSE Join(types)]
        path == IF Len(indices) > 0 /\ Len(types) > 0
                  THEN Expand(<<"/", "{index}", "/", "{type}", "/">>, values)
                ELSE IF Len(indices) > 0
                  THEN Expand(<<"/", "{index}", "/">>, values)
                ELSE IF Len(types) > 0
                  THEN Expand(<<"/", "_all", "/", "{type}", "/">>, values)
                ELSE <<"/">>
    IN path \o <<endpoint>>

\* buildURL is about to be applied to a specification of URLSpecs.
InitURL ==
    /\ args \in URLSpecs
    /\ fn = "buildURL"
    /\ q = ""
    /\ opts = <<>>
    /\ fpc = "entry"
    /\ spec = ZeroSpec
    /\ ndocs = 0
    /\ badHit = 0
    /\ Fresh

\* path, params, err := spec.buildURL("_validate/query") (validate.go:71)
BuildURLCall ==
    /\ fn = "buildURL"
    /\ fpc = "entry"
    /\ result' = buildURL(args, "_validate/query")
    /\ fpc' = "returned"
    /\ UNCHANGED <<args, fn, q, opts, fret, inputs, ret, chans, ctl, prod, helper,
                   server, client, hist>>

----------------------------------------------------------------------------
\* extractResult (src/unnamed/part_008:235-243).  A pointer is <<>> when nil
\* and <<v>> when it points at v; a hit's Fields is the list of its
\* <<name, value>> pairs; a source body is kept as one opaque string.

HitIds == {"AV1", "AV2"}
HitFields == {<<>>, << <<"host", "web1">> >>}
HitSources == {<<>>, <<"doc1">>, <<"doc2">>}
Hits ==
    {<<>>} \cup {<<h>> : h \in [Id : HitIds, Fields : HitFields, Source : HitSources]}

\* The part of SearchOptions extractResult reads.
ExtractSpecs == [Fields : {<<>>, <<"host">>, <<"host", "message">>}, RawResult : BOOLEAN]

NoResult(e) == [variant |-> "none", value |-> <<>>, err |-> e]
AResult(variant, value) == [variant |-> variant, value |-> value, err |-> "nil"]

\* extractResult as src/unnamed/part_008 has it: hit.Fields is read before
\* hit is compared with nil, and only when spec.Fields is not empty.
extractResultHit(hit, s) ==
    IF Len(s.Fields) # 0 /\ hit = <<>>
      THEN NoResult("panic")
    ELSE IF Len(s.Fields) # 0 /\ Len(hit[1].Fields) # 0
      THEN AResult("FieldResult", hit[1].Fields)
    ELSE IF hit = <<>> \/ hit[1].Source = <<>>
      THEN NoResult("nil document returned")
    ELSE AResult("SourceResult", hit[1].Source[1])

\* extractResult with the raw-result case in front of the others.
extractResultRaw(hit, s) ==
    IF s.RawResult
      THEN AResult("HitResult", hit[1])
    ELSE extractResultHit(hit, s)

\* extractResult is about to be applied to a hit and a specification; a raw
\* result is only asked of a hit that exists.
InitExtract ==
    /\ args \in {a \in [hit : Hits, spec : ExtractSpecs] :
                    a.spec.RawResult => a.hit # <<>>}
    /\ fn = "extractResult"
    /\ q = ""
    /\ opts = <<>>
    /\ fpc = "entry"
    /\ spec = ZeroSpec
    /\ ndocs = 0
    /\ badHit = 0
    /\ Fresh

\* result, err := extractResult(hit, spec) (execute.go:420)
ExtractCall ==
    /\ fn = "extractResult"
    /\ fpc = "entry"
    /\ result' = extractResultRaw(args.hit, args.spec)
    /\ fpc' = "returned"
    /\ UNCHANGED <<args, fn, q, opts, fret, inputs, ret, chans, ctl, prod, helper,
                   server, client, hist>>

----------------------------------------------------------------------------
\* SourceResult (src/result.go:44-66).  The raw bytes of a JSON object are
\* the list of its members in written order; a member is its key, the kind
\* of its value, and the text of the value: the decimal digits of a number
\* or the characters of a string.

Digits == <<"0", "1", "2", "3", "4", "5", "6", "7", "8", "9">>

RECURSIVE ParseInt(_)
\* The integer a run of decimal digits denotes.
ParseInt(text) ==
    IF text = <<>> THEN 0
    ELSE ParseInt(SubSeq(text, 1, Len(text) - 1)) * 10
            + ((CHOOSE d \in 1..10 : Digits[d] = text[Len(text)]) - 1)

RECURSIVE FormatInt(_)
\* The decimal digits json.Marshal writes for an integral float64.
FormatInt(n) ==
    IF n < 10 THEN <<Digits[n + 1]>>
    ELSE FormatInt(n \div 10) \o <<Digits[(n % 10) + 1]>>

RECURSIVE BitLen(_)
BitLen(n) == IF n = 0 THEN 0 ELSE 1 + BitLen(n \div 2)

\* n rounded to the nearest value with a significand of the given number of
\* bits, ties to even.
RoundTo(bits, n) ==
    LET e == BitLen(n) - bits
    IN  IF e <= 0 THEN n
        ELSE LET unit == 2 ^ e
                 m == n \div unit
                 r == n % unit
             IN  IF 2 * r > unit \/ (2 * r = unit /\ m % 2 = 1)
                   THEN (m + 1) * unit
                 ELSE m * unit

\* A number decoded into a float32.
Float32(n) == RoundTo(MantissaBits - 1, n)

\* json.Unmarshal into interface{} stores a JSON number as a float64.
Float64(n) == RoundTo(MantissaBits, n)

JSONKeys == <<"a", "b">>
Numbers ==
    {0, 1, 2 ^ MantissaBits - 1, 2 ^ MantissaBits, 2 ^ MantissaBits + 1,
     2 ^ MantissaBits + 2, 2 ^ MantissaBits + 3, 2 ^ (MantissaBits + 1) + 3}
Members ==
    {[key |-> k, kind |-> "number", text |-> FormatInt(n)] :
        k \in Range(JSONKeys), n \in Numbers}
    \cup {[key |-> k, kind |-> "string", text |-> t] :
            k \in Range(JSONKeys), t \in {<<>>, <<"x">>}}
\* Objects of at most two members with distinct keys.
Documents ==
    {<<>>} \cup {<<m>> : m \in Members}
    \cup {d \in Members \X Members : d[1].key # d[2].key}

\* The value json.Unmarshal stores for a member.
Decode(m) ==
    IF m.kind = "number"
      THEN [kind |-> "number", num |-> Float64(ParseInt(m.text)), str |-> <<>>]
    ELSE [kind |-> "string", num |-> 0, str |-> m.text]

\* json.Unmarshal(sr, &data): the map of keys to decoded values, a later
\* member replacing an earlier one of the same key.
Unmarshal(doc) ==
    [k \in {doc[i].key : i \in DOMAIN doc} |->
        LET last == CHOOSE i \in DOMAIN doc :
                        /\ doc[i].key = k
                        /\ \A j \in DOMAIN doc : doc[j].key = k => j <= i
        IN  Decode(doc[last])]

\* The member json.Marshal writes for a key of a map.
Encode(k, v) ==
    IF v.kind = "number"
      THEN [key |-> k, kind |-> "number", text |-> FormatInt(v.num)]
    ELSE [key |-> k, kind |-> "string", text |-> v.str]

\* json.Marshal(data): the members of the map, in the order of their keys.
Marshal(data) ==
    LET keys == SelectSeq(JSONKeys, LAMBDA k : k \in DOMAIN data)
    IN  [i \in 1..Len(keys) |-> Encode(keys[i], data[keys[i]])]

\* A SourceResult has been built from the bytes of a document.
InitRound ==
    /\ args \in Documents
    /\ fn = "SourceResult"
    /\ q = ""
    /\ opts = <<>>
    /\ fpc = "entry"
    /\ spec = ZeroSpec
    /\ ndocs = 0
    /\ badHit = 0
    /\ Fresh

\* b, err := sr.JSON() (result.go:54-56)
SourceJSON ==
    /\ fn = "SourceResult"
    /\ fpc = "entry"
    /\ result' = <<[json |-> args, data |-> <<>>, out |-> <<>>]>>
    /\ fpc' = "r_json"
    /\ UNCHANGED <<args, fn, q, opts, fret, inputs, ret, chans, ctl, prod, helper,
                   server, client, hist>>

\* data, err := sr.Map() (result.go:48-51)
SourceMap ==
    /\ fn = "SourceResult"
    /\ fpc = "r_json"
    /\ result' = <<[result[1] EXCEPT !.data = Unmarshal(args)]>>
    /\ fpc' = "r_map"
    /\ UNCHANGED <<args, fn, q, opts, fret, inputs, ret, chans, ctl, prod, helper,
                   server, client, hist>>

\* out, err := json.Marshal(data), what FieldResult(data).JSON() does
\* (result.go:30-32)
Remarshal ==
    /\ fn = "SourceResult"
    /\ fpc = "r_map"
    /\ result' = <<[result[1] EXCEPT !.out = Marshal(result[1].data)]>>
    /\ fpc' = "returned"
    /\ UNCHANGED <<args, fn, q, opts, fret, inputs, ret, chans, ctl, prod, helper,
                   server, client, hist>>

----------------------------------------------------------------------------
\* One iteration of executeScroll's loop (execute.go:391-430) as a sequence
\* of its own: the head of the loop, the scroll id of the page and the
\* conversion of one hit, for any scroll id and any hit a response can
\* carry.  A scroll id is the sequence of its characters.

\* The length of the scroll id prefix that is logged (nextScrollID[:10]).
LogPrefix == 10

\* A scroll id of n characters that starts with c.
TokenOf(c, n) == [i \in 1..n |-> IF i = 1 THEN c ELSE "x"]
\* The scroll ids a response may carry: none, and ids shorter than, as long
\* as and longer than the logged prefix.
PageTokens ==
    {<<>>} \cup {TokenOf(c, n) : c \in {"a", "b"},
                                 n \in {1, LogPrefix - 1, LogPrefix, LogPrefix + 1}}
\* The ids the producer can hold when it enters an iteration: none, or one
\* that went through the iteration before.
HeldTokens == {t \in PageTokens : t = <<>> \/ Len(t) >= LogPrefix}

\* str[:n], <<>> when the slice bounds are out of range (a run-time panic)
\* and <<prefix>> otherwise.
SliceTo(str, n) == IF n <= Len(str) THEN <<SubSeq(str, 1, n)>> ELSE <<>>

\* The iteration is about to start.
InitPage ==
    /\ args \in [held : HeldTokens, tok : PageTokens, hit : Hits,
                 spec : {s \in ExtractSpecs : ~s.RawResult}]
    /\ fn = "executeScroll"
    /\ q = ""
    /\ opts = <<>>
    /\ fpc = "entry"
    /\ spec = ZeroSpec
    /\ ndocs = 0
    /\ badHit = 0
    /\ FreshFor(Threads)

\* if nextScrollID != "" { log.Debugf(..., nextScrollID[:10]); ... }
PageHead ==
    /\ fn = "executeScroll"
    /\ fpc = "entry"
    /\ result' = <<[nextScrollID |-> args.held, errors |-> <<>>, sent |-> <<>>]>>
    /\ fpc' = IF args.held # <<>> /\ SliceTo(args.held, LogPrefix) = <<>>
                THEN "panic" ELSE "p_token"
    /\ UNCHANGED <<args, fn, q, opts, fret, inputs, ret, chans, ctl, prod, helper,
                   server, client, hist>>

\* if results.ScrollId != "" && results.ScrollId != nextScrollID {
\*     discardID <- nextScrollID; nextScrollID = results.ScrollId
\*     log.Debugf(..., nextScrollID[:10]) }
PageToken ==
    /\ fn = "executeScroll"
    /\ fpc = "p_token"
    /\ IF args.tok # <<>> /\ args.tok # result[1].nextScrollID
         THEN /\ result' = <<[result[1] EXCEPT !.nextScrollID = args.tok]>>
              /\ fpc' = IF SliceTo(args.tok, LogPrefix) = <<>> THEN "panic" ELSE "p_hit"
         ELSE /\ result' = result
              /\ fpc' = "p_hit"
    /\ UNCHANGED <<args, fn, q, opts, fret, inputs, ret, chans, ctl, prod, helper,
                   server, client, hist>>

\* result, err := extractResult(hit, spec); if err != nil { stream.Errors <- err };
\* stream.Results <- result
PageHit ==
    /\ fn = "executeScroll"
    /\ fpc = "p_hit"
    /\ LET r == extractResultRaw(args.hit, args.spec)
       IN  IF r.err = "panic"
             THEN /\ fpc' = "panic"
                  /\ result' = result
           ELSE /\ fpc' = "returned"
                /\ result' = <<[result[1] EXCEPT
                                  !.errors = IF r.err = "nil" THEN @ ELSE Append(@, r.err),
                                  !.sent = Append(@, r.variant)]>>
    /\ UNCHANGED <<args, fn, q, opts, fret, inputs, ret, chans, ctl, prod, helper,
                   server, client, hist>>

----------------------------------------------------------------------------
\* configureSearch and configureScroll (src/unnamed/part_017:135-167) and
\* the cursor request of execute (execute.go:328-337).  A request under
\* construction is a record: size is <<>> until set, index the index names
\* in the order they were added, sort the sort clauses in the order they
\* were added, fetch <<>> or the list of the included fields.

\* A request nothing has been applied to yet (l.Scroll(), l.Search()).
NewService == [size |-> <<>>, index |-> <<>>, sort |-> <<>>, fetch |-> <<>>]

\* A request that already carries a size, an index, a sort clause and a
\* field selection.
UsedService ==
    [size |-> <<MaxSearchSize>>, index |-> <<"old-*">>,
     sort |-> << <<"_score", "desc">> >>, fetch |-> << <<"message">> >>]

\* The SearchOptions the configure functions read (SortTime is a pointer).
ConfigSpecs ==
    [Size : {0, 1, MaxSearchSize + 1}, Index : IndexNames,
     Indices : {<<>>, <<"syslog-*">>, <<"syslog-*", "nginx-*">>},
     SortTime : {<<>>, <<TRUE>>, <<FALSE>>},
     Fields : {<<>>, <<"host">>, <<"host", "message">>}]

\* for _, f := range []string{"@timestamp", "date"} { s.SortBy(sort) }
SortByTimestamp(search, asc) ==
    LET order == IF asc THEN "asc" ELSE "desc"
    IN [search EXCEPT !.sort = @ \o << <<"@timestamp", order>>, <<"date", order>> >>]

\* The request after the size and the index names of s were applied.
Targeted(s, service) ==
    LET sized == IF s.Size # 0 THEN [service EXCEPT !.size = <<s.Size>>] ELSE service
        named == IF s.Index # "" THEN [sized EXCEPT !.index = Append(@, s.Index)]
                 ELSE sized
    IN IF Len(s.Indices) # 0 THEN [named EXCEPT !.index = @ \o s.Indices] ELSE named

configureSearch(s, search) ==
    LET sorted == IF s.SortTime # <<>>
                    THEN SortByTimestamp(Targeted(s, search), s.SortTime[1])
                    ELSE Targeted(s, search)
    IN IF Len(s.Fields) # 0 THEN [sorted EXCEPT !.fetch = <<s.Fields>>] ELSE sorted

\* configureScroll with the sort and the field selection of configureSearch.
configureScrollAll(s, scroll) == configureSearch(s, scroll)

configureScroll(s, scroll) == Targeted(s, scroll)

\* The index names of a specification of Specs, which keeps len(Indices).
IndicesOf(n) == [i \in 1..n |-> "syslog-*"]

\* The cursor request without scroll.Size(scrollChunk).
ScrollRequestAsConfigured(s) ==
    configureScroll([Size |-> s.Size, Index |-> s.Index,
                     Indices |-> IndicesOf(s.Indices)], NewService)

\* scroll := l.Scroll(); spec.configureScroll(scroll); scroll.Size(scrollChunk)
ScrollRequest(s) ==
    [configureScroll([Size |-> s.Size, Index |-> s.Index,
                      Indices |-> IndicesOf(s.Indices)], NewService)
       EXCEPT !.size = <<scrollChunk>>]

\* A configure function is about to be applied to a specification and a
\* request.
InitConfigure ==
    /\ args \in [s : ConfigSpecs, service : {NewService, UsedService}]
    /\ fn \in {"configureSearch", "configureScroll"}
    /\ q = ""
    /\ opts = <<>>
    /\ fpc = "entry"
    /\ spec = ZeroSpec
    /\ ndocs = 0
    /\ badHit = 0
    /\ Fresh

\* spec.configureSearch(search) (src/unnamed/part_008:55)
ConfigureSearchCall ==
    /\ fn = "configureSearch"
    /\ fpc = "entry"
    /\ result' = configureSearch(args.s, args.service)
    /\ fpc' = "returned"
    /\ UNCHANGED <<args, fn, q, opts, fret, inputs, ret, chans, ctl, prod, helper,
                   server, client, hist>>

\* spec.configureScroll(scroll) (execute.go:329)
ConfigureScrollCall ==
    /\ fn = "configureScroll"
    /\ fpc = "entry"
    /\ result' = configureScroll(args.s, args.service)
    /\ fpc' = "returned"
    /\ UNCHANGED <<args, fn, q, opts, fret, inputs, ret, chans, ctl, prod, helper,
                   server, client, hist>>

----------------------------------------------------------------------------
\* CurlyFormat (src/format.go:23-63).  A string is the sequence of its
\* characters; "0xFF" stands for a byte that is no UTF-8 encoding and
\* "U+FFFD" for the replacement character.

\* Longest format string that is enumerated.
MaxFormatLen == 4

openBrace == <<"{", "{">>
closeBrace == <<"}", "}">>

\* The inputs of TestCurlyFormat (search_test.go:34-41) that need more
\* than MaxFormatLen characters.
Examples ==
    { <<".", "o", "n", "e", " ", ".", "t", "w", "o">>,
      <<".", "o", "n", "e", " ", "{", "{", ".", "t", "w", "o", "}", "}">>,
      <<".", "o", "n", "e", " ", ".", " ", ".", "t", "w", "o">>,
      <<".", "o", "n", "e", "\t", ".", "t", "w", "o">> }

Formats ==
    Examples \cup
    UNION {[1..n -> {".", "a", " ", "{", "}", "0xFF"}] : n \in 0..MaxFormatLen}

\* strings.Contains(str, sub)
Contains(str, sub) ==
    \E i \in 1..(Len(str) - Len(sub) + 1) :
        SubSeq(str, i, i + Len(sub) - 1) = sub

\* unicode.IsSpace(r), for the characters of the formats
IsSpace(r) == r \in {" ", "\t"}

\* src.ReadRune(): the next character, the replacement character for a byte
\* that is no encoding.
ReadRune(src) == IF Head(src) = "0xFF" THEN "U+FFFD" ELSE Head(src)

\* for { r, _, err := src.ReadRune(); ...; dst.WriteRune(r) }: what is
\* written to dst from src on, inToken being the flag at this point.
RECURSIVE CurlyLoop(_, _)
CurlyLoop(src, inToken) ==
    IF src = <<>>
      THEN (IF inToken THEN closeBrace ELSE <<>>)
      ELSE LET r == ReadRune(src)
               opened == (r = "." /\ ~inToken)
               token == (inToken \/ opened) /\ ~IsSpace(r)
           IN (IF opened THEN openBrace ELSE <<>>)
              \o (IF IsSpace(r) /\ inToken THEN closeBrace ELSE <<>>)
              \o <<r>>
              \o CurlyLoop(Tail(src), token)

CurlyFormat(str) ==
    IF Contains(str, openBrace) /\ Contains(str, closeBrace)
      THEN str
      ELSE CurlyLoop(str, FALSE)

\* CurlyFormat is about to be applied to a format string.
InitCurly ==
    /\ args \in Formats
    /\ fn = "CurlyFormat"
    /\ q = ""
    /\ opts = <<>>
    /\ fpc = "entry"
    /\ spec = ZeroSpec
    /\ ndocs = 0
    /\ badHit = 0
    /\ Fresh

\* format = CurlyFormat(format) (format.go:86)
CurlyFormatCall ==
    /\ fn = "CurlyFormat"
    /\ fpc = "entry"
    /\ result' = CurlyFormat(args)
    /\ fpc' = "returned"
    /\ UNCHANGED <<args, fn, q, opts, fret, inputs, ret, chans, ctl, prod, helper,
                   server, client, hist>>

----------------------------------------------------------------------------
\* semver.NewerThan (src/cmd/lgrep/updates.go:35-47)

\* Largest number of a version component.
MaxVersion == 2

\* semver: VersionMajor, VersionMinor, VersionRev
Versions ==
    [VersionMajor : 0..MaxVersion, VersionMinor : 0..MaxVersion,
     VersionRev : 0..MaxVersion]

NewerThan(s, ver) ==
    IF s.VersionMajor > ver.VersionMajor THEN TRUE
    ELSE IF s.VersionMinor > ver.VersionMinor THEN TRUE
    ELSE IF s.VersionRev > ver.VersionRev THEN TRUE
    ELSE FALSE

\* NewerThan is about to be applied to a release and the running version.
InitVersion ==
    /\ args \in [s : Versions, ver : Versions]
    /\ fn = "NewerThan"
    /\ q = ""
    /\ opts = <<>>
    /\ fpc = "entry"
    /\ spec = ZeroSpec
    /\ ndocs = 0
    /\ badHit = 0
    /\ Fresh

\* if newRel.NewerThan(prog) { return newRel, nil } (updates.go:85)
NewerThanCall ==
    /\ fn = "NewerThan"
    /\ fpc = "entry"
    /\ result' = NewerThan(args.s, args.ver)
    /\ fpc' = "returned"
    /\ UNCHANGED <<args, fn, q, opts, fret, inputs, ret, chans, ctl, prod, helper,
                   server, client, hist>>

----------------------------------------------------------------------------
\* SimpleSearch (src/unnamed/part_008:39-74) and SearchWithSource
\* (src/unnamed/part_008:113-155) up to the point where the search runs

Returns(results, e) ==
    /\ fret' = [results |-> results, err |-> e]
    /\ fpc' = "returned"

\* A SimpleSearch that does not test the query.
SearchEntryUnchecked ==
    /\ fpc = "entry"
    /\ fpc' = "f_size"
    /\ UNCHANGED <<pure, fn, q, opts, fret, inputs, ret, chans, ctl, prod, helper, server,
                   client, hist>>

\* if q == "" { return results, ErrEmptySearch }
SearchEntry ==
    /\ fpc = "entry"
    /\ IF fn = "SimpleSearch" /\ q = ""
         THEN Returns(<<>>, "ErrEmptySearch")
         ELSE /\ fpc' = "f_size"
              /\ fret' = fret
    /\ UNCHANGED <<pure, fn, q, opts, inputs, ret, chans, ctl, prod, helper, server,
                   client, hist>>

\* The specification test without the size-0 return.
SearchSizeUnchecked ==
    /\ fpc = "f_size"
    /\ spec' = IF opts = <<>> THEN DefaultSpec ELSE opts[1]
    /\ fpc' = "f_validate"
    /\ UNCHANGED <<pure, fn, q, opts, fret, ndocs, badHit, ret, chans, ctl, prod, helper,
                   server, client, hist>>

\* if spec != nil { if spec.Size == 0 { return results, err } }
\* else { spec = &DefaultSpec }
SearchSize ==
    /\ fpc = "f_size"
    /\ spec' = IF opts = <<>> THEN DefaultSpec ELSE opts[1]
    /\ IF opts # <<>> /\ opts[1].Size = 0
         THEN Returns(<<>>, "nil")
         ELSE /\ fpc' = "f_validate"
              /\ fret' = fret
    /\ UNCHANGED <<pure, fn, q, opts, ndocs, badHit, ret, chans, ctl, prod, helper, server,
                   client, hist>>

\* where the search itself starts: l.execute in SimpleSearch, search.Do()
\* in SearchWithSource
AfterValidate == IF fn = "SimpleSearch" THEN "f_execute" ELSE "f_do"

\* What l.validate can do: send the request and find the query valid or
\* invalid, or fail before anything is sent (validate.go:70-114).
ValidateOutcomes == {"valid", "invalid", "unsent"}

\* A validation whose error is dropped.
SearchValidateIgnored ==
    /\ fpc = "f_validate"
    /\ IF spec.QuerySkipValidate
         THEN requests' = requests
         ELSE \E outcome \in ValidateOutcomes :
                requests' = IF outcome = "unsent" THEN requests
                            ELSE [requests EXCEPT !["validate"] = @ + 1]
    /\ fpc' = AfterValidate
    /\ UNCHANGED <<pure, fn, q, opts, fret, inputs, ret, chans, ctl, prod, helper, spos,
                   issued, submitted, client, hist>>

\* if !spec.QuerySkipValidate { _, err := l.validate(...); if err != nil {
\*     return results, err } }
SearchValidate ==
    /\ fpc = "f_validate"
    /\ IF spec.QuerySkipValidate
         THEN /\ fpc' = AfterValidate
              /\ UNCHANGED <<fret, requests>>
         ELSE \E outcome \in ValidateOutcomes :
                /\ requests' = IF outcome = "unsent" THEN requests
                               ELSE [requests EXCEPT !["validate"] = @ + 1]
                /\ IF outcome = "valid"
                     THEN /\ fpc' = AfterValidate
                          /\ fret' = fret
                     ELSE Returns(<<>>, "validation")
    /\ UNCHANGED <<pure, fn, q, opts, inputs, ret, chans, ctl, prod, helper, spos, issued,
                   submitted, client, hist>>

\* consumeResults: the converted hits up to the first one without a source,
\* which ends the conversion with an error.
consumeResults(hits) ==
    IF \E i \in DOMAIN hits : extractResult(hits[i]).err
      THEN [results |-> SubSeq(hits, 1,
                         (CHOOSE i \in DOMAIN hits :
                            /\ extractResult(hits[i]).err
                            /\ \A j \in 1..(i - 1) : ~extractResult(hits[j]).err) - 1),
            err |-> "convert"]
      ELSE [results |-> hits, err |-> "nil"]

\* SearchWithSource: res, err := search.Do(); return consumeResults(res, *spec)
SearchDo ==
    /\ fpc = "f_do"
    /\ requests' = [requests EXCEPT !["search"] = @ + 1]
    /\ \E ok \in BOOLEAN :
         IF ok THEN Returns(consumeResults(HitsFrom(1, Min(spec.Size, ndocs))).results,
                            consumeResults(HitsFrom(1, Min(spec.Size, ndocs))).err)
               ELSE Returns(<<>>, "transport")
    /\ UNCHANGED <<pure, fn, q, opts, inputs, ret, chans, ctl, prod, helper, spos, issued,
                   submitted, client, hist>>

----------------------------------------------------------------------------
\* execute (execute.go:299-345)

execute ==
    /\ \A t \in DOMAIN pc : pc[t] = "start"
    /\ fpc \in {"none", "f_execute"}
    /\ IF UseScroll(spec)
         THEN IF IndexMissing(spec)
                THEN /\ ret' = "error"
                     /\ pc' = [t \in DOMAIN pc |-> "failed"]
                     /\ ppc' = ppc
                ELSE /\ ret' = "stream"
                     /\ pc' = [t \in DOMAIN pc |-> "idle"]
                     /\ ppc' = "c_add"
         ELSE /\ ret' = "stream"
              /\ pc' = [t \in DOMAIN pc |-> "idle"]
              /\ ppc' = "s_add"
    /\ UNCHANGED <<front, inputs, chans, ctl, page, pageTok, hitIdx, cur, err, nextScrollID,
                   resultCount, helper, server, calls, inEach, received,
                   errsReceived, eosCalls, spins, eachRet, hist>>

----------------------------------------------------------------------------
\* Channel sends of the producer.  A send on a closed channel panics; a send
\* on a full buffer blocks (the action is not enabled).

CanSend(c, buf, cap) == ChanClosed(c) \/ Len(buf) < cap

\* stream.Errors <- e, continuing at position next
SendError(e, next) ==
    /\ CanSend("Errors", Errors, ErrorsCap)
    /\ IF ChanClosed("Errors")
         THEN /\ ppc' = "panic"
              /\ UNCHANGED <<Errors, errsPublished>>
         ELSE /\ ppc' = next
              /\ Errors' = Append(Errors, e)
              /\ errsPublished' = Append(errsPublished, e)

\* stream.Results <- cur, continuing at position next
SendResult(next) ==
    /\ CanSend("Results", Results, ResultsCap)
    /\ IF ChanClosed("Results")
         THEN /\ ppc' = "panic"
              /\ UNCHANGED <<Results, published, afterQuit>>
         ELSE /\ ppc' = next
              /\ Results' = Append(Results, cur)
              /\ published' = Append(published, cur)
              /\ afterQuit' = IF quitSent THEN afterQuit + 1 ELSE afterQuit

----------------------------------------------------------------------------
\* executeSearcher (execute.go:443-470)

\* stream.control.Add(1)
SearcherAdd ==
    /\ ppc = "s_add"
    /\ wg' = wg + 1
    /\ ppc' = "s_do"
    /\ UNCHANGED <<front, inputs, ret, chans, mutex, stopped, page, pageTok, hitIdx, cur, err,
                   nextScrollID, resultCount, helper, server, client, hist>>

\* result, err := service.Do(): the server returns the first spec.Size
\* matching documents, or fails.
SearcherDo ==
    /\ ppc = "s_do"
    /\ requests' = [requests EXCEPT !["search"] = @ + 1]
    /\ \E ok \in BOOLEAN :
         IF ok THEN /\ err' = "nil"
                    /\ page' = HitsFrom(1, Min(spec.Size, ndocs))
                    /\ hitIdx' = 1
                    /\ ppc' = "s_loop"
               ELSE /\ err' = "error"
                    /\ ppc' = "s_err"
                    /\ UNCHANGED <<page, hitIdx>>
    /\ UNCHANGED <<front, inputs, ret, chans, ctl, pageTok, cur, nextScrollID, resultCount,
                   helper, spos, issued, submitted, client, hist>>

\* stream.Errors <- err; return
SearcherSendErr ==
    /\ ppc = "s_err"
    /\ SendError(TransportError, "x_errors")
    /\ UNCHANGED <<front, inputs, ret, Results, closes, quit, ctl, page, pageTok, hitIdx, cur, err,
                   nextScrollID, resultCount, helper, server, client, published,
                   quitSent, afterQuit, quitsReturned>>

\* for i := range result.Hits.Hits { select { case <-quit: return; default: ... } }
SearcherLoop ==
    /\ ppc = "s_loop"
    /\ IF hitIdx > Len(page)
         THEN /\ ppc' = "x_errors"
              /\ UNCHANGED <<quit, cur>>
         ELSE IF quit > 0
           THEN /\ quit' = quit - 1
                /\ ppc' = "x_errors"
                /\ cur' = cur
           ELSE /\ cur' = extractResult(page[hitIdx]).result
                /\ ppc' = IF extractResult(page[hitIdx]).err THEN "s_hiterr" ELSE "s_send"
                /\ quit' = quit
    /\ UNCHANGED <<front, inputs, ret, Results, Errors, closes, ctl, page, pageTok, hitIdx, err,
                   nextScrollID, resultCount, helper, server, client, hist>>

\* if err != nil { stream.Errors <- err }
SearcherHitErr ==
    /\ ppc = "s_hiterr"
    /\ SendError(ConvertError(page[hitIdx]), "s_send")
    /\ UNCHANGED <<front, inputs, ret, Results, closes, quit, ctl, page, pageTok, hitIdx, cur, err,
                   nextScrollID, resultCount, helper, server, client, published,
                   quitSent, afterQuit, quitsReturned>>

\* stream.Results <- result
SearcherSend ==
    /\ ppc = "s_send"
    /\ SendResult("s_loop")
    /\ hitIdx' = NextHit(hitIdx)
    /\ UNCHANGED <<front, inputs, ret, Errors, closes, quit, ctl, page, pageTok, cur, err,
                   nextScrollID, resultCount, helper, server, client, errsPublished,
                   quitSent, quitsReturned>>

----------------------------------------------------------------------------
\* The deferred calls of both producers, in the order they run:
\* close(discardID) (executeScroll only), close(stream.Errors),
\* close(stream.Results), stream.control.Done().

\* position after closing channel c
AfterClose(c) ==
    CASE c = "discardID" -> "x_errors"
      [] c = "Errors" -> "x_results"
      [] c = "Results" -> "x_done"

\* close(c); closing a closed channel panics
CloseChan(c) ==
    /\ IF ChanClosed(c) THEN ppc' = "panic" ELSE ppc' = AfterClose(c)
    /\ closes' = [closes EXCEPT ![c] = @ + 1]

\* A producer that returns without closing stream.Errors.
ProducerForgetsCloseErrors ==
    /\ ppc = "x_errors"
    /\ ppc' = "x_results"
    /\ UNCHANGED <<front, inputs, ret, chans, ctl, page, pageTok, hitIdx, cur, err, nextScrollID,
                   resultCount, helper, server, client, hist>>

\* defer close(stream.Errors)
ProducerCloseErrors ==
    /\ ppc = "x_errors"
    /\ CloseChan("Errors")
    /\ UNCHANGED <<front, inputs, ret, Results, Errors, quit, ctl, page, pageTok, hitIdx, cur, err,
                   nextScrollID, resultCount, helper, server, client, hist>>

\* defer close(stream.Results)
ProducerCloseResults ==
    /\ ppc = "x_results"
    /\ CloseChan("Results")
    /\ UNCHANGED <<front, inputs, ret, Results, Errors, quit, ctl, page, pageTok, hitIdx, cur, err,
                   nextScrollID, resultCount, helper, server, client, hist>>

\* A producer that exits without stream.control.Done().
ProducerNeverDone ==
    /\ ppc = "x_done"
    /\ ppc' = "exited"
    /\ UNCHANGED <<front, inputs, ret, chans, ctl, page, pageTok, hitIdx, cur, err, nextScrollID,
                   resultCount, helper, server, client, hist>>

\* stream.control.Done()
ProducerDone ==
    /\ ppc = "x_done"
    /\ wg' = wg - 1
    /\ ppc' = "exited"
    /\ UNCHANGED <<front, inputs, ret, chans, mutex, stopped, page, pageTok, hitIdx, cur, err,
                   nextScrollID, resultCount, helper, server, client, hist>>

----------------------------------------------------------------------------
\* executeScroll (execute.go:347-441)

\* stream.control.Add(1)
ScrollAdd ==
    /\ ppc = "c_add"
    /\ wg' = wg + 1
    /\ ppc' = "c_spawn"
    /\ UNCHANGED <<front, inputs, ret, chans, mutex, stopped, page, pageTok, hitIdx, cur, err,
                   nextScrollID, resultCount, helper, server, client, hist>>

\* discardID = make(chan string, 5); go func() {...}()
ScrollSpawn ==
    /\ ppc = "c_spawn"
    /\ hpc' = "h_add"
    /\ ppc' = "c_head"
    /\ UNCHANGED <<front, inputs, ret, chans, ctl, page, pageTok, hitIdx, cur, err, nextScrollID,
                   resultCount, discardID, scrolls, server, client, hist>>

\* head of scrollLoop: if nextScrollID != "" { if resultCount >= spec.Size { break } }
ScrollHead ==
    /\ ppc = "c_head"
    /\ ppc' = IF nextScrollID # "" /\ CountExceeded(resultCount, spec.Size)
                THEN "c_final" ELSE "c_do"
    /\ UNCHANGED <<front, inputs, ret, chans, ctl, page, pageTok, hitIdx, cur, err, nextScrollID,
                   resultCount, helper, server, client, hist>>

\* results, err := scroll.Do(): the next documents, as many as the size of
\* the cursor request (see ScrollRequest), with a scroll
\* id, elastic.EOS when no document is left, or a transport error.
\* if err != nil { if err != elastic.EOS { (send, see ScrollSendErr) }; break }
ScrollDo ==
    /\ ppc = "c_do"
    /\ requests' = [requests EXCEPT !["scroll"] = @ + 1]
    /\ \/ /\ err' \in {"error"} \cup (IF spos >= ndocs THEN {"EOS"} ELSE {})
          /\ ppc' = IF IsEOS(err') THEN "c_final" ELSE "c_err"
          /\ UNCHANGED <<page, pageTok, hitIdx, spos, issued>>
       \/ /\ spos < ndocs
          /\ err' = "nil"
          /\ \E tok \in Tokens :
               /\ pageTok' = tok
               /\ issued' = issued \cup ({tok} \ {""})
          /\ page' = HitsFrom(spos + 1, Min(spos + ScrollRequest(spec).size[1], ndocs))
          /\ spos' = Min(spos + ScrollRequest(spec).size[1], ndocs)
          /\ hitIdx' = 1
          /\ ppc' = "c_token"
    /\ UNCHANGED <<front, inputs, ret, chans, ctl, cur, nextScrollID, resultCount, helper,
                   submitted, client, hist>>

\* A producer that asks for the page again after reporting the error.
ScrollSendErrRetry ==
    /\ ppc = "c_err"
    /\ SendError(TransportError, "c_head")
    /\ UNCHANGED <<front, inputs, ret, Results, closes, quit, ctl, page, pageTok, hitIdx, cur, err,
                   nextScrollID, resultCount, helper, server, client, published,
                   quitSent, afterQuit, quitsReturned>>

\* if err != elastic.EOS { stream.Errors <- errors.Annotate(err, ...) }; break
ScrollSendErr ==
    /\ ppc = "c_err"
    /\ SendError(TransportError, "c_final")
    /\ UNCHANGED <<front, inputs, ret, Results, closes, quit, ctl, page, pageTok, hitIdx, cur, err,
                   nextScrollID, resultCount, helper, server, client, published,
                   quitSent, afterQuit, quitsReturned>>

\* if results.ScrollId != "" && results.ScrollId != nextScrollID {
\*     discardID <- nextScrollID; nextScrollID = results.ScrollId }
ScrollToken ==
    /\ ppc = "c_token"
    /\ IF pageTok # "" /\ pageTok # nextScrollID
         THEN /\ Len(discardID) < DiscardCap
              /\ discardID' = Append(discardID, nextScrollID)
              /\ nextScrollID' = pageTok
         ELSE UNCHANGED <<discardID, nextScrollID>>
    /\ ppc' = "c_hit"
    /\ UNCHANGED <<front, inputs, ret, chans, ctl, page, pageTok, hitIdx, cur, err, resultCount,
                   hpc, scrolls, server, client, hist>>

\* for _, hit := range results.Hits.Hits { result, err := extractResult(hit, spec)
ScrollHit ==
    /\ ppc = "c_hit"
    /\ IF hitIdx > Len(page)
         THEN /\ ppc' = "c_head"
              /\ cur' = cur
         ELSE /\ cur' = extractResult(page[hitIdx]).result
              /\ ppc' = IF extractResult(page[hitIdx]).err THEN "c_hiterr" ELSE "c_select"
    /\ UNCHANGED <<front, inputs, ret, chans, ctl, page, pageTok, hitIdx, err, nextScrollID,
                   resultCount, helper, server, client, hist>>

\* if err != nil { stream.Errors <- err }
ScrollHitErr ==
    /\ ppc = "c_hiterr"
    /\ SendError(ConvertError(page[hitIdx]), "c_select")
    /\ UNCHANGED <<front, inputs, ret, Results, closes, quit, ctl, page, pageTok, hitIdx, cur, err,
                   nextScrollID, resultCount, helper, server, client, published,
                   quitSent, afterQuit, quitsReturned>>

\* select { case <-stream.control.quit: break scrollLoop
ScrollSelectQuit ==
    /\ ppc = "c_select"
    /\ quit > 0
    /\ quit' = quit - 1
    /\ ppc' = "c_final"
    /\ UNCHANGED <<front, inputs, ret, Results, Errors, closes, ctl, page, pageTok, hitIdx, cur, err,
                   nextScrollID, resultCount, helper, server, client, hist>>

\* A driver without the count test after the publish: the page is published
\* to its end.
ScrollSelectSendUnchecked ==
    /\ ppc = "c_select"
    /\ SendResult("c_hit")
    /\ resultCount' = resultCount + 1
    /\ hitIdx' = NextHit(hitIdx)
    /\ UNCHANGED <<front, inputs, ret, Errors, closes, quit, ctl, page, pageTok, cur, err,
                   nextScrollID, helper, server, client, errsPublished, quitSent,
                   quitsReturned>>

\* case stream.Results <- result: resultCount++ }
\* if resultCount == spec.Size { break scrollLoop }
\* Go's select picks any ready case: this one is enabled whether or not a
\* quit signal is pending.
ScrollSelectSend ==
    /\ ppc = "c_select"
    /\ SendResult(IF CountReached(resultCount + 1, spec.Size) THEN "c_final" ELSE "c_hit")
    /\ resultCount' = resultCount + 1
    /\ hitIdx' = NextHit(hitIdx)
    /\ UNCHANGED <<front, inputs, ret, Errors, closes, quit, ctl, page, pageTok, cur, err,
                   nextScrollID, helper, server, client, errsPublished, quitSent,
                   quitsReturned>>

\* after the loop: if nextScrollID != "" { discardID <- nextScrollID }
ScrollFinal ==
    /\ ppc = "c_final"
    /\ IF nextScrollID # ""
         THEN /\ Len(discardID) < DiscardCap
              /\ discardID' = Append(discardID, nextScrollID)
         ELSE discardID' = discardID
    /\ ppc' = "x_discard"
    /\ UNCHANGED <<front, inputs, ret, chans, ctl, page, pageTok, hitIdx, cur, err, nextScrollID,
                   resultCount, hpc, scrolls, server, client, hist>>

\* defer close(discardID)
ScrollCloseDiscard ==
    /\ ppc = "x_discard"
    /\ CloseChan("discardID")
    /\ UNCHANGED <<front, inputs, ret, Results, Errors, quit, ctl, page, pageTok, hitIdx, cur, err,
                   nextScrollID, resultCount, helper, server, client, hist>>

----------------------------------------------------------------------------
\* The scroll cleaner goroutine (execute.go:358-384)

\* stream.control.Add(1)
CleanerAdd ==
    /\ hpc = "h_add"
    /\ wg' = wg + 1
    /\ hpc' = "h_recv"
    /\ UNCHANGED <<front, inputs, ret, chans, mutex, stopped, prod, discardID, scrolls,
                   server, client, hist>>

\* A cleaner without the test for the empty scroll id.
CleanerReceiveKeepsEmpty ==
    /\ hpc = "h_recv"
    /\ discardID # <<>>
    /\ discardID' = Tail(discardID)
    /\ scrolls' = Append(scrolls, Head(discardID))
    /\ UNCHANGED <<front, inputs, ret, chans, ctl, prod, hpc, server, client, hist>>

\* case scrollID, ok := <-discardID, a value received
CleanerReceive ==
    /\ hpc = "h_recv"
    /\ discardID # <<>>
    /\ discardID' = Tail(discardID)
    /\ scrolls' = IF Head(discardID) = "" THEN scrolls ELSE Append(scrolls, Head(discardID))
    /\ UNCHANGED <<front, inputs, ret, chans, ctl, prod, hpc, server, client, hist>>

\* case scrollID, ok := <-discardID, the channel closed and drained: break receive
CleanerClosed ==
    /\ hpc = "h_recv"
    /\ discardID = <<>>
    /\ ChanClosed("discardID")
    /\ hpc' = "h_clear"
    /\ UNCHANGED <<front, inputs, ret, chans, ctl, prod, discardID, scrolls, server, client,
                   hist>>

\* A cleaner that reports a failed clear request on the errors channel.
CleanerClearReports ==
    /\ hpc = "h_clear"
    /\ requests' = [requests EXCEPT !["clear"] = @ + 1]
    /\ hpc' = "h_done"
    /\ \E ok \in BOOLEAN :
         IF ok THEN /\ submitted' = submitted \cup Range(scrolls)
                    /\ UNCHANGED <<Errors, errsPublished>>
               ELSE /\ submitted' = submitted
                    /\ Errors' = Append(Errors, TransportError)
                    /\ errsPublished' = Append(errsPublished, TransportError)
    /\ UNCHANGED <<front, inputs, ret, Results, closes, quit, ctl, prod, discardID, scrolls,
                   spos, issued, client, published, quitSent, afterQuit, quitsReturned>>

\* clear := l.Client.ClearScroll(scrolls...); _, err := clear.Do(); the
\* request reaches the server or fails, and an error is only logged
CleanerClear ==
    /\ hpc = "h_clear"
    /\ requests' = [requests EXCEPT !["clear"] = @ + 1]
    /\ \E ok \in BOOLEAN :
         submitted' = IF ok THEN submitted \cup Range(scrolls) ELSE submitted
    /\ hpc' = "h_done"
    /\ UNCHANGED <<front, inputs, ret, chans, ctl, prod, discardID, scrolls, spos, issued,
                   client, hist>>

\* defer stream.control.Done()
CleanerDone ==
    /\ hpc = "h_done"
    /\ wg' = wg - 1
    /\ hpc' = "exited"
    /\ UNCHANGED <<front, inputs, ret, chans, mutex, stopped, prod, discardID, scrolls,
                   server, client, hist>>

----------------------------------------------------------------------------
\* SearchStream.Wait and SearchStream.Quit, called by thread t either
\* directly or from Each

\* Wait: s.control.Lock()
WaitLock(t) ==
    /\ pc[t] = "w_lock"
    /\ mutex = "free"
    /\ mutex' = t
    /\ pc' = [pc EXCEPT ![t] = "w_wait"]
    /\ UNCHANGED <<front, inputs, ret, chans, wg, stopped, prod, helper, server, calls,
                   inEach, received, errsReceived, eosCalls, spins, eachRet, hist>>

\* Wait: s.control.Wait() returns when the counter is zero; deferred Unlock().
\* It is the last call of Each.
WaitReturn(t) ==
    /\ pc[t] = "w_wait"
    /\ wg = 0
    /\ mutex' = "free"
    /\ pc' = [pc EXCEPT ![t] = "idle"]
    /\ inEach' = (inEach /\ t # "consumer")
    /\ UNCHANGED <<front, inputs, ret, chans, wg, stopped, prod, helper, server, calls,
                   received, errsReceived, eosCalls, spins, eachRet, hist>>

\* Where thread t goes on when its Quit() returns: Each, which only the
\* consumer runs, calls s.Wait() next.
AfterQuit(t) == IF inEach /\ t = "consumer" THEN "w_lock" ELSE "idle"

\* Quit: s.control.Lock(); if s.control.stopped { return }.  Each calls
\* s.Wait() after s.Quit().
QuitLock(t) ==
    /\ pc[t] = "q_lock"
    /\ mutex = "free"
    /\ IF stopped
         THEN /\ pc' = [pc EXCEPT ![t] = AfterQuit(t)]
              /\ mutex' = "free"
              /\ quitsReturned' = quitsReturned + 1
         ELSE /\ pc' = [pc EXCEPT ![t] = "q_send"]
              /\ mutex' = t
              /\ quitsReturned' = quitsReturned
    /\ UNCHANGED <<front, inputs, ret, chans, wg, stopped, prod, helper, server, calls,
                   inEach, received, errsReceived, eosCalls, spins, eachRet, published,
                   errsPublished, quitSent, afterQuit>>

\* Quit: s.control.quit <- struct{}{}
QuitSend(t) ==
    /\ pc[t] = "q_send"
    /\ quit < QuitCap
    /\ quit' = quit + 1
    /\ quitSent' = TRUE
    /\ pc' = [pc EXCEPT ![t] = "q_wait"]
    /\ UNCHANGED <<front, inputs, ret, Results, Errors, closes, ctl, prod, helper, server,
                   calls, inEach, received, errsReceived, eosCalls, spins, eachRet,
                   published, errsPublished, afterQuit, quitsReturned>>

\* Quit with a value receiver (as in the earlier revision of
\* src/unnamed/part_001:47): the flag is set on a copy of the stream.
QuitFinishOnCopy(t) ==
    /\ pc[t] = "q_wait"
    /\ mutex' = "free"
    /\ pc' = [pc EXCEPT ![t] = AfterQuit(t)]
    /\ quitsReturned' = quitsReturned + 1
    /\ UNCHANGED <<front, inputs, ret, chans, wg, stopped, prod, helper, server, calls,
                   inEach, received, errsReceived, eosCalls, spins, eachRet, published,
                   errsPublished, quitSent, afterQuit>>

\* Quit: select { case <-timeout.C: case <-stopped: }; s.control.stopped = true;
\* deferred Unlock().  The stopped case is ready once the goroutine that runs
\* s.control.Wait() has seen the counter at zero; the one-second timer fires
\* whatever the counter is, so the select has no guard on the stream's state.
QuitFinish(t) ==
    /\ pc[t] = "q_wait"
    /\ stopped' = TRUE
    /\ mutex' = "free"
    /\ pc' = [pc EXCEPT ![t] = AfterQuit(t)]
    /\ quitsReturned' = quitsReturned + 1
    /\ UNCHANGED <<front, inputs, ret, chans, wg, prod, helper, server, calls, inEach,
                   received, errsReceived, eosCalls, spins, eachRet, published,
                   errsPublished, quitSent, afterQuit>>

----------------------------------------------------------------------------
\* SearchStream.Each (execute.go:262-295).  What resultFn and errFn return is
\* the caller's choice.

\* An Each that breaks out on a failing errFn without calling s.Quit().
EachErrorNoQuit(t) ==
    /\ pc[t] = "e_select"
    /\ Errors # <<>>
    /\ Errors' = Tail(Errors)
    /\ errsReceived' = Append(errsReceived, Head(Errors))
    /\ spins' = 0
    /\ \E fails \in BOOLEAN :
         IF fails THEN /\ eachRet' = "errFn"
                       /\ pc' = [pc EXCEPT ![t] = "w_lock"]
                  ELSE UNCHANGED <<eachRet, pc>>
    /\ UNCHANGED <<front, inputs, ret, Results, closes, quit, ctl, prod, helper, server, calls,
                   inEach, received, eosCalls, hist>>

\* case streamErr, ok := <-s.Errors with a value: err = errFn(streamErr);
\* nil: continue; otherwise s.Quit(); break stream
EachError(t) ==
    /\ pc[t] = "e_select"
    /\ Errors # <<>>
    /\ Errors' = Tail(Errors)
    /\ errsReceived' = Append(errsReceived, Head(Errors))
    /\ spins' = 0
    /\ \E fails \in BOOLEAN :
         IF fails THEN /\ eachRet' = "errFn"
                       /\ pc' = [pc EXCEPT ![t] = "q_lock"]
                  ELSE UNCHANGED <<eachRet, pc>>
    /\ UNCHANGED <<front, inputs, ret, Results, closes, quit, ctl, prod, helper, server, calls,
                   inEach, received, eosCalls, hist>>

\* case result, ok := <-s.Results with a value (a nil value included, ok is
\* true): err = resultFn(result); non-nil: break stream
EachResult(t) ==
    /\ pc[t] = "e_select"
    /\ Results # <<>>
    /\ Results' = Tail(Results)
    /\ received' = Append(received, Head(Results))
    /\ spins' = 0
    /\ \E fails \in BOOLEAN :
         IF fails THEN /\ eachRet' = "resultFn"
                       /\ pc' = [pc EXCEPT ![t] = "w_lock"]
                  ELSE UNCHANGED <<eachRet, pc>>
    /\ UNCHANGED <<front, inputs, ret, Errors, closes, quit, ctl, prod, helper, server, calls,
                   inEach, errsReceived, eosCalls, hist>>

\* A loop that treats the closed Results channel as it treats the closed
\* Errors channel: continue.
EachClosedContinue(t) ==
    /\ pc[t] = "e_select"
    /\ Results = <<>>
    /\ ChanClosed("Results")
    /\ spins' = 1 - spins
    /\ UNCHANGED <<front, inputs, ret, chans, ctl, prod, helper, server, pc, calls, inEach,
                   received, errsReceived, eosCalls, eachRet, hist>>

\* case result, ok := <-s.Results, closed and drained: err = resultFn(EOS); break
EachClosed(t) ==
    /\ pc[t] = "e_select"
    /\ Results = <<>>
    /\ ChanClosed("Results")
    /\ eosCalls' = eosCalls + 1
    /\ spins' = 0
    /\ \E fails \in BOOLEAN : eachRet' = IF fails THEN "resultFn" ELSE "eos"
    /\ pc' = [pc EXCEPT ![t] = "w_lock"]
    /\ UNCHANGED <<front, inputs, ret, chans, ctl, prod, helper, server, calls, inEach,
                   received, errsReceived, hist>>

\* case streamErr, ok := <-s.Errors, closed and drained: streamErr == nil &&
\* !ok, continue.  The case stays ready for as long as the loop runs.
EachErrorsClosed(t) ==
    /\ pc[t] = "e_select"
    /\ Errors = <<>>
    /\ ChanClosed("Errors")
    /\ spins' = 1 - spins
    /\ UNCHANGED <<front, inputs, ret, chans, ctl, prod, helper, server, pc, calls, inEach,
                   received, errsReceived, eosCalls, eachRet, hist>>

\* The caller calls Each (once), Wait or Quit on the stream execute returned.
Call(t) ==
    /\ pc[t] = "idle"
    /\ calls < MaxCalls
    /\ calls' = calls + 1
    /\ \/ /\ eachRet = "none"
          /\ t = "consumer"
          /\ eachRet' = "running"
          /\ inEach' = TRUE
          /\ pc' = [pc EXCEPT ![t] = "e_select"]
       \/ /\ \E op \in {"w_lock", "q_lock"} : pc' = [pc EXCEPT ![t] = op]
          /\ UNCHANGED <<eachRet, inEach>>
    /\ UNCHANGED <<front, inputs, ret, chans, ctl, prod, helper, server, received,
                   errsReceived, eosCalls, spins, hist>>

----------------------------------------------------------------------------
Producer ==
    \/ SearcherAdd \/ SearcherDo \/ SearcherSendErr \/ SearcherLoop
    \/ SearcherHitErr \/ SearcherSend
    \/ ScrollAdd \/ ScrollSpawn \/ ScrollHead \/ ScrollDo \/ ScrollSendErr
    \/ ScrollToken \/ ScrollHit \/ ScrollHitErr \/ ScrollSelectQuit
    \/ ScrollSelectSend \/ ScrollFinal \/ ScrollCloseDiscard
    \/ ProducerCloseErrors \/ ProducerCloseResults \/ ProducerDone

Cleaner ==
    CleanerAdd \/ CleanerReceive \/ CleanerClosed \/ CleanerClear \/ CleanerDone

Caller ==
    \/ execute
    \/ \E t \in DOMAIN pc :
         \/ Call(t) \/ EachError(t) \/ EachResult(t) \/ EachClosed(t)
         \/ EachErrorsClosed(t)
         \/ WaitLock(t) \/ WaitReturn(t) \/ QuitLock(t) \/ QuitSend(t) \/ QuitFinish(t)

Next == Producer \/ Cleaner \/ Caller

Spec == Init /\ [][Next]_vars

\* The Go scheduler runs every goroutine that can run: a background task
\* that can take a step eventually takes one.
FairTasks == WF_vars(Producer) /\ WF_vars(Cleaner)

\* A call in progress goes on while it can, and Each's select, which picks
\* among its ready cases at random, does not leave out for ever a case that
\* stays ready.
FairCaller ==
    \A t \in Threads :
        /\ WF_vars(WaitLock(t) \/ WaitReturn(t) \/ QuitLock(t) \/ QuitSend(t)
                      \/ QuitFinish(t))
        /\ WF_vars(EachError(t))
        /\ WF_vars(EachResult(t))
        /\ WF_vars(EachClosed(t))

\* execute called with a specification that names its index by Index and
\* asks for at most one document more than a single request returns.
InitFair ==
    /\ Init
    /\ spec.Index # ""
    /\ spec.Indices = 0
    /\ spec.Size <= MaxSearchSize + 1

\* The same stream handed to two threads.
InitTwo ==
    /\ args = <<>>
    /\ fn = "execute"
    /\ q = "message:error"
    /\ opts = <<>>
    /\ fpc = "none"
    /\ spec \in {s \in Specs : s.Index # "" /\ s.Indices = 0 /\ s.Size <= MaxSearchSize + 1}
    /\ ndocs \in NDocs
    /\ badHit \in {h \in BadHits : h <= ndocs}
    /\ FreshFor(TwoThreads)

SpecTwo == InitTwo /\ [][Next]_vars

\* The stream with fair background tasks and a caller that may stop at any
\* point.
SpecTasks == InitFair /\ [][Next]_vars /\ FairTasks

\* The stream with fair background tasks and a caller that carries on with
\* the calls it has made.
SpecFair == InitFair /\ [][Next]_vars /\ FairTasks /\ FairCaller

\* buildURL applied to a specification.
NextURL == BuildURLCall

SpecURL == InitURL /\ [][NextURL]_vars

\* SimpleSearch and SearchWithSource, followed until the search has sent its
\* first page request.
NextSearch ==
    \/ SearchEntry \/ SearchSize \/ SearchValidate \/ SearchDo
    \/ execute
    \/ SearcherAdd \/ SearcherDo
    \/ ScrollAdd \/ ScrollSpawn \/ ScrollHead \/ ScrollDo

SpecSearch == InitSearch /\ [][NextSearch]_vars

\* extractResult applied to a hit.
NextExtract == ExtractCall

SpecExtract == InitExtract /\ [][NextExtract]_vars

\* A SourceResult's bytes returned, decoded and marshalled again.
NextRound == SourceJSON \/ SourceMap \/ Remarshal

SpecRound == InitRound /\ [][NextRound]_vars

\* One iteration of the cursor driver on any page.
NextPage == PageHead \/ PageToken \/ PageHit

SpecPage == InitPage /\ [][NextPage]_vars

NextConfigure == ConfigureSearchCall \/ ConfigureScrollCall

SpecConfigure == InitConfigure /\ [][NextConfigure]_vars

NextCurly == CurlyFormatCall

SpecCurly == InitCurly /\ [][NextCurly]_vars

NextVersion == NewerThanCall

SpecVersion == InitVersion /\ [][NextVersion]_vars

----------------------------------------------------------------------------
\* Vocabulary of the properties

IsPrefix(a, b) == Len(a) <= Len(b) /\ \A i \in DOMAIN a : a[i] = b[i]

NonNil(r) == r # Nil
HasSource(h) == h # badHit

\* The server's pages in fetch order, each page in server order.
ServerHits == HitsFrom(1, ndocs)

\* Every background task of the stream has exited.
TasksExited == ppc = "exited" /\ (UseScroll(spec) => hpc = "exited")

\* Each has been called and has returned.
EachReturned == eachRet \notin {"none", "running"} /\ ~inEach

TransportFailed == TransportError \in Range(errsPublished)

\* Thread t takes a step of its own.
Steps(t) == pc'[t] # pc[t]

\* No request of any kind has reached the server.
NoRequest == \A k \in DOMAIN requests : requests[k] = 0

\* No stream has been created and no task started.
NothingStarted == ret = "none" /\ ppc = "none" /\ hpc = "none" /\ wg = 0

\* The caller's specification sets QuerySkipValidate.
SkipsValidation == opts # <<>> /\ opts[1].QuerySkipValidate

\* All (execute.go:246-254) is Each with a resultFn that appends its argument
\* and returns nil and an errFn that returns the error it is given: the run
\* of Each is one of All when resultFn has not failed and errFn has failed on
\* the first error it was given.
AllHandlers ==
    /\ eachRet # "resultFn"
    /\ Len(errsReceived) <= 1
    /\ (errsReceived # <<>>) <=> (eachRet = "errFn")

\* The slice All returns: every argument resultFn was called with, the
\* values read from Results and then the EOS of the closed channel.
AllResults == received \o [i \in 1..eosCalls |-> Nil]

\* The producer has left its loop: only the final discard, the deferred
\* closes and Done() remain.
ExitPath == {"c_final", "x_discard", "x_errors", "x_results", "x_done", "exited"}

\* The producer has handed its current scroll id over: the send after the
\* loop is done.
HandedOver == ExitPath \ {"c_final"}

\* a / b rounded up.
Ceil(a, b) == (a + b - 1) \div b

\* Search and cursor-advance requests the server has received.
PageRequests == requests["search"] + requests["scroll"]

TransportErrorsPublished ==
    Cardinality({i \in DOMAIN errsPublished : errsPublished[i] = TransportError})

----------------------------------------------------------------------------
\* C1: on the cursor path with a requested size S that is no multiple of the
\* chunk size, a server holding at least S documents, no transport or
\* conversion error and no cancellation, never more than S results are
\* published or received, and a consumer that has seen the results channel
\* closed has received exactly S results.
C1_ExactlySize ==
    (/\ ret = "stream"
     /\ UseScroll(spec)
     /\ spec.Size % scrollChunk # 0
     /\ ndocs >= spec.Size
     /\ badHit = 0
     /\ ~TransportFailed
     /\ ~quitSent)
    => /\ Len(published) <= spec.Size
       /\ Len(received) <= spec.Size
       /\ eosCalls > 0 => Len(received) = spec.Size

C1_Witness ==
    /\ UseScroll(spec)
    /\ spec.Size % scrollChunk # 0
    /\ ndocs > spec.Size
    /\ badHit = 0
    /\ ~TransportFailed
    /\ ~quitSent
    /\ eosCalls > 0
    /\ Len(received) = spec.Size
    /\ requests["scroll"] > 1

\* C2: a hit that cannot be converted yields exactly one error and nothing
\* on the results channel: no nil Result is ever published, and the errors
\* published for one hit are at most one.
C2_BadHitPublishesNothing ==
    /\ Nil \notin Range(published)
    /\ \A i, j \in DOMAIN errsPublished :
         (errsPublished[i] = errsPublished[j] /\ errsPublished[i].kind = "convert")
            => i = j

C4_WaitMeansExited ==
    [][\A t \in DOMAIN pc : (pc[t] = "w_wait" /\ Steps(t)) => TasksExited]_vars

\* C5: on the cursor path, when a Wait() returns after the producer has
\* exited, every scroll id the server returned has been submitted in a
\* clear-scroll request.
C5_ClearedByWait ==
    [][\A t \in DOMAIN pc :
         (pc[t] = "w_wait" /\ Steps(t) /\ ppc = "exited") => issued \subseteq submitted]_vars

\* C6: after Quit() has sent the cancellation signal the producer publishes
\* at most one further result.
C6_AtMostOneAfterQuit == afterQuit <= 1

\* C7: a Quit() call made after a Quit() call has returned sends no signal
\* and changes neither the stopped flag nor the channels, the wait-group or
\* the lock: it returns in its first step.
C7_QuitIdempotent ==
    [][\A t \in DOMAIN pc :
         (pc[t] = "q_lock" /\ quitsReturned > 0 /\ Steps(t))
            => /\ pc'[t] \in {"idle", "w_lock"}
               /\ UNCHANGED <<quit, quitSent, stopped, Results, Errors, closes, wg, mutex>>]_vars

C7_Witness ==
    /\ quitsReturned = 2
    /\ stopped
    /\ quitSent
    /\ quit = 0
    /\ ppc = "exited"

\* C8: once Each() has returned, no background task of the stream is still
\* running (so nothing more is sent on either channel).
C8_EachReturnsAfterTasks == EachReturned => TasksExited

\* C9: the producer closes Results and Errors exactly once each on every
\* exit path, and nothing is sent on (and no close repeated for) a closed
\* channel, which would panic.
C9_ClosedOnce ==
    /\ ppc # "panic"
    /\ closes["Results"] <= 1
    /\ closes["Errors"] <= 1
    /\ ppc = "exited" => closes["Results"] = 1 /\ closes["Errors"] = 1
    /\ ChanClosed("Results") => ppc \in {"x_done", "exited"}
    /\ ChanClosed("Errors") => ppc \in {"x_results", "x_done", "exited"}

C9_Witness ==
    /\ ppc = "exited"
    /\ UseScroll(spec)
    /\ TransportFailed
    /\ published # <<>>
    /\ closes["Results"] = 1
    /\ closes["Errors"] = 1

\* C10: execute with a size above the single-request limit and no index set
\* returns an error and no stream: no task is started, no request reaches the
\* server and no error is put on the errors channel.
C10_NoIndexRejected ==
    (UseScroll(spec) /\ spec.Index = "" /\ spec.Indices = 0 /\ pc["consumer"] # "start")
    => /\ ret = "error"
       /\ ppc = "none"
       /\ hpc = "none"
       /\ wg = 0
       /\ \A k \in DOMAIN requests : requests[k] = 0
       /\ errsPublished = <<>>

C10_Witness ==
    /\ ret = "error"
    /\ spec.Size = MaxSearchSize + 1
    /\ spec.Index = ""
    /\ spec.Indices = 0
    /\ pc["consumer"] = "failed"

C12_EndOfStreamIsNoError ==
    /\ [](err = "EOS"
            => /\ ppc \in ExitPath
               /\ ~TransportFailed
               /\ ppc = "exited" => closes["Results"] = 1 /\ closes["Errors"] = 1
               /\ eosCalls > 0 => received = published
               /\ (eosCalls > 0 /\ eachRet \notin {"resultFn", "errFn"}) => eachRet = "eos")
    /\ [][err' = "EOS"
            => (errsPublished' = errsPublished /\ (err = "EOS" => PageRequests' = PageRequests))]_vars

C12_Witness ==
    /\ err = "EOS"
    /\ requests["scroll"] = 2
    /\ EachReturned
    /\ eachRet = "eos"
    /\ received = published
    /\ received # <<>>
    /\ errsReceived = <<>>
    /\ ppc = "exited"

\* C13: when the stream ends cleanly All() returns exactly the published
\* results, in publication order and with no other element, and a nil
\* error; when an error is received it returns that error and the results
\* received before it.
C13_AllReturnsPublished ==
    (EachReturned /\ AllHandlers)
    => IF eachRet = "eos"
         THEN AllResults = published
         ELSE /\ eachRet = "errFn"
              /\ errsReceived[1] \in Range(errsPublished)
              /\ AllResults = received
              /\ IsPrefix(received, published)

\* C14: in Each() the first non-nil error a handler returns ends the loop
\* and is what Each returns: no handler is invoked after it and the return
\* value does not change; when it came from errFn, Quit() is called next and
\* has returned before Each does; a handler that returns nil leaves Each in
\* its loop.
C14_FirstHandlerErrorStops ==
    /\ []((eachRet = "errFn" /\ (~inEach \/ pc["consumer"] \in {"w_lock", "w_wait"}))
            => quitsReturned > 0)
    /\ [](eachRet \in {"resultFn", "errFn"} => pc["consumer"] # "e_select")
    /\ [][(eachRet \in {"resultFn", "errFn"})
            => UNCHANGED <<received, errsReceived, eosCalls, eachRet>>]_vars
    /\ [][(pc["consumer"] = "e_select" /\ eachRet' = "errFn")
            => pc'["consumer"] = "q_lock"]_vars
    /\ [][(pc["consumer"] = "e_select" /\ eachRet' = "running"
              /\ <<received, errsReceived>>' # <<received, errsReceived>>)
            => pc'["consumer"] = "e_select"]_vars

C14_Witness ==
    /\ EachReturned
    /\ eachRet = "errFn"
    /\ Len(errsReceived) = 2
    /\ quitsReturned = 1
    /\ received # <<>>
    /\ Results # <<>>

\* C15: Quit() always returns, even when the tasks never exit: its lock is
\* never held by a Wait() that is waiting for the tasks, the signal buffer is
\* empty when Quit() sends (no signal was sent before), so the send does not
\* block, and the wait that follows can end whatever the tasks do; when a
\* Quit() has returned the signal has been sent.
C15_QuitReturns ==
    \A t \in DOMAIN pc :
      /\ pc[t] = "q_lock" =>
            (\A u \in DOMAIN pc : (mutex = u /\ pc[u] = "w_wait") => ENABLED WaitReturn(u))
      /\ pc[t] = "q_send" => (quit = 0 /\ ~quitSent /\ ENABLED QuitSend(t))
      /\ pc[t] = "q_wait" => ENABLED QuitFinish(t)
      /\ quitsReturned > 0 => (quitSent /\ stopped)

\* C16: once every background task has exited the wait-group counter is
\* zero, so a Wait() takes the lock and returns without waiting for
\* anything, however many times it is called, and its return changes
\* nothing of the stream.
C16_WaitAfterFinish ==
    /\ [](TasksExited
            => /\ wg = 0
               /\ \A t \in DOMAIN pc :
                    /\ pc[t] = "w_lock" => ENABLED WaitLock(t)
                    /\ pc[t] = "w_wait" => ENABLED WaitReturn(t))
    /\ [][\A t \in DOMAIN pc :
           (TasksExited /\ pc[t] \in {"w_lock", "w_wait"} /\ Steps(t))
             => UNCHANGED <<chans, wg, stopped, prod, helper, server, hist>>]_vars

C16_Witness ==
    /\ TasksExited
    /\ UseScroll(spec)
    /\ EachReturned
    /\ eachRet = "eos"
    /\ calls = 2
    /\ pc["consumer"] = "w_wait"

\* C17: SimpleSearch with an empty query does nothing but return zero
\* results and ErrEmptySearch, whatever the specification: no request of any
\* kind is sent and nothing is started.
C17_EmptyQueryRejected ==
    (fn = "SimpleSearch" /\ q = "")
    => /\ NoRequest
       /\ NothingStarted
       /\ fpc \in {"entry", "returned"}
       /\ fpc = "returned" => fret = [results |-> <<>>, err |-> "ErrEmptySearch"]

C17_Witness ==
    /\ fn = "SimpleSearch"
    /\ q = ""
    /\ opts = <<[Size |-> 1, Index |-> "", Indices |-> 0, QuerySkipValidate |-> FALSE]>>
    /\ fpc = "returned"
    /\ fret.err = "ErrEmptySearch"

\* C18: a search (with a query) whose specification has size 0 returns an
\* empty result and a nil error without any request or task; a search called
\* with no specification runs with DefaultSpec, and the page its search
\* request gets back has the default size.
C18_SizeZeroNotExecuted ==
    /\ (opts # <<>> /\ opts[1].Size = 0)
         => /\ NoRequest
            /\ NothingStarted
            /\ fpc \in {"entry", "f_size", "returned"}
            /\ (fpc = "returned" /\ ~(fn = "SimpleSearch" /\ q = ""))
                 => fret = [results |-> <<>>, err |-> "nil"]
    /\ (opts = <<>> /\ fpc \notin {"entry", "f_size"} /\ ~(fn = "SimpleSearch" /\ q = ""))
         => /\ spec = DefaultSpec
            /\ ~UseScroll(spec)
            /\ ret = "stream" => ppc \in {"s_add", "s_do", "s_err", "s_loop"}
            /\ ppc = "s_loop" => Len(page) = DefaultSize
            /\ (fpc = "returned" /\ fret.err = "nil") => Len(fret.results) = DefaultSize

C18_Witness ==
    /\ fn = "SimpleSearch"
    /\ q # ""
    /\ opts # <<>>
    /\ opts[1].Size = 0
    /\ fpc = "returned"
    /\ fret = [results |-> <<>>, err |-> "nil"]

\* C19: a search that is executed (a stream created, a task started or a
\* page request sent) without QuerySkipValidate has sent its validation
\* request first; a search that returned a validation error created no
\* stream, started no task and sent no page request; with QuerySkipValidate
\* set no validation request is ever sent.
C19_ValidatedBeforeSearch ==
    /\ (~NothingStarted \/ PageRequests > 0)
         => (SkipsValidation \/ requests["validate"] = 1)
    /\ fret.err = "validation"
         => (fpc = "returned" /\ NothingStarted /\ PageRequests = 0)
    /\ SkipsValidation => requests["validate"] = 0
    /\ fpc \in {"f_execute", "f_do"} => fret.err = "none"

C19_Witness ==
    /\ fn = "SimpleSearch"
    /\ fret.err = "validation"
    /\ requests["validate"] = 1
    /\ fpc = "returned"

\* C20 as stated: buildURL("_validate/query") is /{index}/_validate/query
\* with only indices set, /_all/{type}/_validate/query with only types set,
\* /_validate/query with neither and /{index}/{type}/_validate/query with
\* both, {index} being Index and then Indices joined by commas and {type}
\* being Type and then Types joined by commas, as they are.
C20_PlainJoin ==
    fpc = "returned"
    => LET index == Join(IF args.Index = <<>> THEN args.Indices
                         ELSE <<args.Index>> \o args.Indices)
           type == Join(IF args.Type = <<>> THEN args.Types
                        ELSE <<args.Type>> \o args.Types)
       IN result =
            IF index # <<>> /\ type # <<>>
              THEN <<"/">> \o index \o <<"/">> \o type \o <<"/", "_validate/query">>
            ELSE IF index # <<>>
              THEN <<"/">> \o index \o <<"/", "_validate/query">>
            ELSE IF type # <<>>
              THEN <<"/", "_all", "/">> \o type \o <<"/", "_validate/query">>
            ELSE <<"/", "_validate/query">>

\* C20 as amended: the same four paths, where {index} and {type} are the
\* comma-joins with every character outside A-Z a-z 0-9 - . _ ~ (the
\* joining commas included) written as % and its two hexadecimal digits.
C20_EscapedJoin ==
    fpc = "returned"
    => LET index == Join(IF args.Index = <<>> THEN args.Indices
                         ELSE <<args.Index>> \o args.Indices)
           type == Join(IF args.Type = <<>> THEN args.Types
                        ELSE <<args.Type>> \o args.Types)
       IN result =
            IF index # <<>> /\ type # <<>>
              THEN <<"/">> \o escape(index) \o <<"/">> \o escape(type)
                   \o <<"/", "_validate/query">>
            ELSE IF index # <<>>
              THEN <<"/">> \o escape(index) \o <<"/", "_validate/query">>
            ELSE IF type # <<>>
              THEN <<"/", "_all", "/">> \o escape(type) \o <<"/", "_validate/query">>
            ELSE <<"/", "_validate/query">>

C20_Witness ==
    /\ fpc = "returned"
    /\ args.Index = Dated
    /\ args.Indices = <<Plain, Other>>
    /\ args.Type = <<>>
    /\ args.Types = <<>>
    /\ result = <<"/">> \o Dated \o <<"%", "2", "C">> \o Plain \o <<"%", "2", "C">>
                 \o Other \o <<"/", "_validate/query">>

----------------------------------------------------------------------------
\* C21: every hit is converted to exactly one Result variant chosen by the
\* specification and the hit: a HitResult carrying the hit's id when raw
\* results are asked for; otherwise a FieldResult when fields were requested
\* and the hit has a non-empty field mapping; otherwise a SourceResult when
\* the hit has a source body; and an error with no Result when the hit is
\* nil or has no source.
C21_OneVariant ==
    (fn = "extractResult" /\ fpc = "returned") =>
        LET hit == args.hit
            s == args.spec
        IN  IF s.RawResult
              THEN /\ result.variant = "HitResult"
                   /\ result.value.Id = hit[1].Id
                   /\ result.err = "nil"
            ELSE IF s.Fields # <<>> /\ hit # <<>> /\ hit[1].Fields # <<>>
              THEN /\ result.variant = "FieldResult"
                   /\ result.value = hit[1].Fields
                   /\ result.err = "nil"
            ELSE IF hit # <<>> /\ hit[1].Source # <<>>
              THEN /\ result.variant = "SourceResult"
                   /\ result.value = hit[1].Source[1]
                   /\ result.err = "nil"
            ELSE /\ result.variant = "none"
                 /\ result.err = "nil document returned"

----------------------------------------------------------------------------
----------------------------------------------------------------------------
\* C23: the consumer never loses a transport error: when the producer has
\* published a transport error before closing both channels, Each() has
\* called errFn with it before it leaves its loop on the closed results
\* channel, so a run of Each that ends on the end of the stream has handed
\* every published transport error to errFn.
C23_TransportErrorSeen ==
    (eachRet = "eos" /\ TransportFailed) => TransportError \in Range(errsReceived)

----------------------------------------------------------------------------
\* C24: after Quit() has signalled cancellation the producer eventually
\* exits, on the single-page path and on the cursor path, even when the
\* consumer has stopped reading and a channel buffer is full (that it does
\* so after at most one more hit is the bound of C6).
C24_QuitStopsProducer == quitSent ~> (ppc = "exited")

\* C25: Each() eventually returns after resultFn has returned a non-nil
\* error, whatever number of hits the producer still has to publish: the
\* Wait() it performs after leaving the loop does not block for ever.
C25_EachReturnsAfterError == (eachRet = "resultFn") ~> ~inEach

\* C26: with handlers that always return nil, Each() eventually returns: it
\* reaches the closed results channel and is not starved by the closed
\* errors channel, which its select can pick again and again.
C26_EachReturns == inEach ~> (~inEach \/ eachRet \in {"resultFn", "errFn"})

\* Each's loop has just taken the case of the closed errors channel while
\* the closed results channel was ready too.
C26_Witness ==
    /\ pc["consumer"] = "e_select"
    /\ spins = 1
    /\ Results = <<>>
    /\ ChanClosed("Results")
    /\ UseScroll(spec)
    /\ received # <<>>

----------------------------------------------------------------------------
\* C27: resultFn is called with the end-of-stream sentinel (nil) at most
\* once, only when the results channel has been closed and drained, and is
\* never called again after that; it never receives nil while the producer
\* is still publishing, so no value read from the channel is nil.
C27_SentinelOnce ==
    /\ [](/\ eosCalls <= 1
          /\ Nil \notin Range(received))
    /\ [][eosCalls' # eosCalls => (Results = <<>> /\ ChanClosed("Results"))]_vars
    /\ [][eosCalls > 0 => UNCHANGED <<received, eosCalls>>]_vars

\* C28: in the cursor driver, when the cancellation signal is already
\* pending as the producer reaches the publish step for a converted hit,
\* that hit is not published, even when the results channel has room.
C28_QuitBeforePublish ==
    [][(ppc = "c_select" /\ quit > 0) => published' = published]_vars

----------------------------------------------------------------------------
\* C29: a Quit() issued while another thread is blocked inside Wait() on the
\* same stream is not held up by it: the lock shared by Wait() and Quit()
\* never makes Quit() wait for the background tasks to exit.
C29_QuitNotHeldByWait ==
    \A t, u \in DOMAIN pc :
        (pc[t] = "q_lock" /\ pc[u] = "w_wait" /\ mutex = u) => wg = 0

----------------------------------------------------------------------------
\* C30: the scroll cleaner never asks the server to clear a scroll id the
\* producer still holds as current or is using in a request in flight:
\* every id it clears is one the server issued, and was either replaced by
\* a newer id or handed over when the producer left its loop.
C30_ClearsOnlyRetired ==
    \A id \in submitted :
        /\ id \in issued
        /\ id = nextScrollID => ppc \in HandedOver

\* The cleaner has cleared a replaced scroll id and the last one, after a
\* second page was fetched with the first id.
C30_Witness ==
    /\ requests["clear"] = 1
    /\ requests["scroll"] > 1
    /\ Cardinality(submitted) = 2
    /\ nextScrollID \in submitted

----------------------------------------------------------------------------
\* C31: for a requested size above the single-request limit, execute rejects
\* the specification with the configuration error if and only if no index
\* target is set at all: with an empty Index and a non-empty Indices list it
\* returns a stream.
C31_RejectedIffNoTarget ==
    (UseScroll(spec) /\ pc["consumer"] # "start")
        => (ret = "error" <=> (spec.Index = "" /\ spec.Indices = 0))

----------------------------------------------------------------------------
\* C32: no server response makes the producer panic: whatever scroll id and
\* hit a page carries (a scroll id shorter than the logged prefix and a nil
\* hit with fields requested included), the iteration goes through, and a
\* hit that cannot be converted gives a value on the errors channel.
C32_NoPanic ==
    fn = "executeScroll" =>
        /\ fpc # "panic"
        /\ (fpc = "returned" /\ "none" \in Range(result[1].sent))
              => result[1].errors # <<>>

----------------------------------------------------------------------------
\* C33: a clear-scroll request that fails is not fatal: the step puts
\* nothing on the errors channel and leaves the channels, the results
\* delivered and what Each returns as they are, and the cleaner goes on to
\* its exit, which nothing holds up.
C33_ClearFailureNotFatal ==
    /\ [][(requests'["clear"] # requests["clear"] /\ submitted' = submitted)
            => /\ UNCHANGED <<Results, Errors, closes, published, errsPublished,
                             received, errsReceived, eosCalls, eachRet>>
               /\ hpc' = "h_done"]_vars
    /\ [](hpc = "h_done" => ENABLED CleanerDone)

\* The clear request for two scroll ids has failed, the cleaner has exited
\* and Each has returned at the end of the stream with the results.
C33_Witness ==
    /\ requests["clear"] = 1
    /\ Len(scrolls) = 2
    /\ submitted = {}
    /\ hpc = "exited"
    /\ eachRet = "eos"
    /\ ~inEach
    /\ received # <<>>
    /\ errsReceived = <<>>

----------------------------------------------------------------------------
\* C34: on the cursor path with at least S matching documents, no failed
\* request and no cancellation, the count is tested right after each
\* publish: never more than S results are published, the producer leaves its
\* loop exactly when the S-th is published, no page is requested after
\* that, the pages requested are the ceiling of S / scrollChunk, and the
\* last of them was fetched in full although only a part of it is published.
C34_StopsAtSize ==
    /\ []((/\ ret = "stream"
           /\ UseScroll(spec)
           /\ ndocs >= spec.Size
           /\ err # "error"
           /\ ~quitSent)
          => /\ Len(published) <= spec.Size
             /\ requests["scroll"] <= Ceil(spec.Size, scrollChunk)
             /\ Len(published) = spec.Size => ppc \in ExitPath
             /\ ppc \in ExitPath =>
                   /\ Len(published) = spec.Size
                   /\ requests["scroll"] = Ceil(spec.Size, scrollChunk)
                   /\ spos = Min(Ceil(spec.Size, scrollChunk) * scrollChunk, ndocs))
    /\ [][(UseScroll(spec) /\ ndocs >= spec.Size /\ Len(published) = spec.Size)
            => requests'["scroll"] = requests["scroll"]]_vars

\* The producer has exited after publishing S results, S no multiple of
\* the chunk size: the server has handed out more documents than were
\* published.
C34_Witness ==
    /\ UseScroll(spec)
    /\ ndocs >= spec.Size
    /\ err # "error"
    /\ ~quitSent
    /\ ppc = "exited"
    /\ Len(published) = spec.Size
    /\ spos > spec.Size
    /\ requests["scroll"] = 2

----------------------------------------------------------------------------
\* C35: execute takes the cursor path exactly when the requested size is
\* strictly greater than MaxSearchSize and the single-page path otherwise;
\* a call that returns a stream starts one producer, and the scroll cleaner
\* and the scroll and clear-scroll requests exist only on the cursor path,
\* the search request only on the single-page path.
C35_PathBySize ==
    LET large == spec.Size > MaxSearchSize
    IN  /\ ret = "stream" => ppc # "none"
        /\ ppc \in {"s_add", "s_do", "s_err", "s_loop", "s_hiterr", "s_send"} => ~large
        /\ ppc \in {"c_add", "c_spawn", "c_head", "c_do", "c_err", "c_token", "c_hit",
                    "c_hiterr", "c_select", "c_final", "x_discard"} => large
        /\ hpc # "none" => large
        /\ requests["search"] > 0 => ~large
        /\ (requests["scroll"] > 0 \/ requests["clear"] > 0) => large
        /\ wg <= (IF large THEN 2 ELSE 1)

\* A request for exactly MaxSearchSize documents has been served by one
\* search request and no cleaner.
C35_Witness ==
    /\ spec.Size = MaxSearchSize
    /\ ret = "stream"
    /\ ppc = "exited"
    /\ hpc = "none"
    /\ requests["search"] = 1
    /\ requests["scroll"] = 0
    /\ published # <<>>

\* C36: on the cursor path every page request asks for the fixed chunk size,
\* whatever the requested total size: a page the server answers with holds
\* the next scrollChunk documents (fewer only when fewer are left), never
\* the spec.Size documents configureScroll had put in the request.
C36_PageSizeIsChunk ==
    [][(requests'["scroll"] # requests["scroll"] /\ err' = "nil")
         => /\ spos' = Min(spos + scrollChunk, ndocs)
            /\ Len(page') = spos' - spos
            /\ Len(page') <= scrollChunk]_vars

\* A first page of scrollChunk documents was served although the requested
\* size is larger and the server holds that many documents.
C36_Witness ==
    /\ UseScroll(spec)
    /\ spec.Size > scrollChunk
    /\ ndocs >= spec.Size
    /\ requests["scroll"] = 1
    /\ err = "nil"
    /\ Len(page) = scrollChunk
    /\ spos = scrollChunk

\* C37: configureScroll applies the size and the index names of the
\* specification and leaves the sort clauses and the field selection of the
\* request as they were; configureSearch applies the size, the index names,
\* the two timestamp sort clauses (@timestamp, then date, in the direction
\* of SortTime) and the field selection, each when the specification sets it.
C37_ConfigureFrame ==
    fpc = "returned" =>
      LET s == args.s
          before == args.service
          names == (IF s.Index # "" THEN <<s.Index>> ELSE <<>>) \o s.Indices
          order == IF s.SortTime = <<TRUE>> THEN "asc" ELSE "desc"
      IN /\ fn \in {"configureScroll", "configureSearch"} =>
              /\ result.size = (IF s.Size # 0 THEN <<s.Size>> ELSE before.size)
              /\ result.index = before.index \o names
         /\ fn = "configureScroll" =>
              /\ result.sort = before.sort
              /\ result.fetch = before.fetch
         /\ fn = "configureSearch" =>
              /\ result.sort =
                   (IF s.SortTime # <<>>
                      THEN before.sort \o << <<"@timestamp", order>>, <<"date", order>> >>
                      ELSE before.sort)
              /\ result.fetch = (IF s.Fields # <<>> THEN <<s.Fields>> ELSE before.fetch)

\* configureScroll has returned for a specification that sets a sort
\* direction and a field selection, on a request that had neither.
C37_Witness ==
    /\ fn = "configureScroll"
    /\ fpc = "returned"
    /\ args.s.SortTime # <<>>
    /\ args.s.Fields # <<>>
    /\ args.s.Size # 0
    /\ args.s.Index # ""
    /\ args.service = NewService
    /\ result.size = <<args.s.Size>>
    /\ result.sort = <<>>

\* The first position of str that holds whitespace, Len(str) + 1 if none.
FirstSpace(str) ==
    IF \E i \in 1..Len(str) : IsSpace(str[i])
      THEN CHOOSE i \in 1..Len(str) :
             IsSpace(str[i]) /\ \A j \in 1..(i - 1) : ~IsSpace(str[j])
      ELSE Len(str) + 1

\* str with every whitespace-delimited token that starts with '.' put
\* between "{{" and "}}" and everything else kept.
RECURSIVE TokensWrapped(_)
TokensWrapped(str) ==
    IF str = <<>> THEN <<>>
    ELSE IF IsSpace(Head(str)) THEN <<Head(str)>> \o TokensWrapped(Tail(str))
    ELSE LET n == FirstSpace(str)
             token == SubSeq(str, 1, n - 1)
         IN (IF Head(token) = "." THEN openBrace \o token \o closeBrace ELSE token)
            \o TokensWrapped(SubSeq(str, n, Len(str)))

C39_StrictOrder ==
    (fn = "NewerThan" /\ fpc = "returned") =>
        /\ ~(result /\ NewerThan(args.ver, args.s))
        /\ args.s.VersionMajor < args.ver.VersionMajor => ~result

====
